---------------------------- MODULE Spec2Model ----------------------------
(***************************************************************************)
(* MadCourses matching core: the /api/match request handler               *)
(* (src/src/routes/api/match/+server.ts) and the catalog cache and filter *)
(* (src/src/lib/database.ts), and the search page that calls the handler  *)
(* (src/unnamed/part_000).                                                 *)
(*                                                                         *)
(* JavaScript values are modelled as tagged records, strings as sequences *)
(* of UTF-16 code units, so that truthiness, toLowerCase, includes and    *)
(* the relational operator < are computed the way the runtime computes    *)
(* them.  Course fields that no branch of the code reads (title,          *)
(* description, credit_amount) are left out of the course records.        *)
(***************************************************************************)
EXTENDS Integers, Sequences, FiniteSets, TLC

VARIABLES
    _coursesCache,  \* database.ts:21  the process-wide catalog cache
    req,            \* one record per POST request: its locals and await point
    everLoaded,     \* history: some store read has delivered the catalog
    loadLog,        \* per request: the store accesses of its current load
    probe,          \* inputs and outputs of the pure-function specifications
    page            \* the search page: its stores and its search() calls

vars == <<_coursesCache, req, everLoaded, loadLog, probe, page>>

----------------------------------------------------------------------------
(* Bounds *)

MaxCourses == 3     \* longest catalog fed to the pure functions
MaxCredit == 2      \* largest credit value of a course
MaxLevel == 2       \* largest course level
NumRequests == 2    \* POST requests received over the life of the process
MaxSearches == 2    \* search() calls made over the life of the page

----------------------------------------------------------------------------
(* JavaScript values *)

Undefined == [t |-> "undefined"]
Num(n) == [t |-> "number", v |-> n]
Str(s) == [t |-> "string", v |-> s]

\* ToBoolean: undefined, null, 0 and "" are falsy; arrays and objects are truthy
Truthy(x) ==
    CASE x.t = "undefined" -> FALSE
      [] x.t = "null" -> FALSE
      [] x.t = "number" -> x.v # 0
      [] x.t = "string" -> Len(x.v) > 0
      [] OTHER -> TRUE

IsDigit(c) == c >= 48 /\ c <= 57

RECURSIVE DigitsValue(_)
DigitsValue(s) ==
    IF s = <<>> THEN 0
    ELSE 10 * DigitsValue(SubSeq(s, 1, Len(s) - 1)) + (s[Len(s)] - 48)

\* ToNumber: a string of digits is its value, "" is 0, any other string and
\* undefined are NaN
ToNumber(x) ==
    CASE x.t = "number" -> [nan |-> FALSE, n |-> x.v]
      [] x.t = "undefined" -> [nan |-> TRUE, n |-> 0]
      [] x.t = "string" ->
            IF \A i \in 1..Len(x.v) : IsDigit(x.v[i])
            THEN [nan |-> FALSE, n |-> DigitsValue(x.v)]
            ELSE [nan |-> TRUE, n |-> 0]

\* a comparison that takes equal strings for ordered
RECURSIVE LexLt_OrEqual(_, _)
LexLt_OrEqual(a, b) ==
    IF a = <<>> THEN TRUE
    ELSE IF b = <<>> THEN FALSE
    ELSE IF a[1] # b[1] THEN a[1] < b[1]
    ELSE LexLt_OrEqual(Tail(a), Tail(b))

\* lexicographic order on code units
RECURSIVE LexLt(_, _)
LexLt(a, b) ==
    IF b = <<>> THEN FALSE
    ELSE IF a = <<>> THEN TRUE
    ELSE IF a[1] # b[1] THEN a[1] < b[1]
    ELSE LexLt(Tail(a), Tail(b))

\* a comparison that is also true of equal numbers
JsLt_OrEqual(a, b) ==
    IF a.t = "string" /\ b.t = "string" THEN LexLt(a.v, b.v)
    ELSE LET na == ToNumber(a)
             nb == ToNumber(b)
         IN  ~na.nan /\ ~nb.nan /\ na.n <= nb.n

\* the relational operator a < b: two strings compare by code units, anything
\* else compares as numbers and a NaN operand makes the comparison false
JsLt(a, b) ==
    IF a.t = "string" /\ b.t = "string" THEN LexLt(a.v, b.v)
    ELSE LET na == ToNumber(a)
             nb == ToNumber(b)
         IN  ~na.nan /\ ~nb.nan /\ na.n < nb.n

\* no case folding
toLowerCase_Identity(s) == s

\* String.prototype.toLowerCase on the code units A..Z
toLowerCase(s) == [i \in 1..Len(s) |-> IF s[i] >= 65 /\ s[i] <= 90 THEN s[i] + 32 ELSE s[i]]

\* String.prototype.includes
includes(s, sub) ==
    \E i \in 0..(Len(s) - Len(sub)) : SubSeq(s, i + 1, i + Len(sub)) = sub

----------------------------------------------------------------------------
(* database.ts: filterCourses *)

NoFilters == [subject_contains |-> Undefined, level_min |-> Undefined,
              level_max |-> Undefined, credit_min |-> Undefined,
              credit_max |-> Undefined, last_taught |-> Undefined]

\* the response body of a failed download that still parses as JSON: an
\* object, not an array
JunkBody == [t |-> "object"]

\* a parsed JSON array
Arr(items) == [t |-> "array", v |-> items]

\* the callback of courses.filter: "pass", "fail", or "throw" when
\* subject_contains is truthy and has no toLowerCase method
CoursePasses(course, filters) ==
    IF Truthy(filters.subject_contains) /\ filters.subject_contains.t # "string"
        THEN "throw"
    ELSE IF Truthy(filters.subject_contains)
            /\ ~includes(toLowerCase(course.subject), toLowerCase(filters.subject_contains.v))
        THEN "fail"
    ELSE IF Truthy(filters.level_min) /\ JsLt(Num(course.level), filters.level_min)
        THEN "fail"
    ELSE IF Truthy(filters.level_max) /\ JsLt(filters.level_max, Num(course.level))
        THEN "fail"
    ELSE IF Truthy(filters.credit_min) /\ JsLt(Num(course.credit_max), filters.credit_min)
        THEN "fail"
    ELSE IF Truthy(filters.credit_max) /\ JsLt(filters.credit_max, Num(course.credit_min))
        THEN "fail"
    ELSE IF Truthy(filters.last_taught) /\ JsLt(Str(course.last_taught), filters.last_taught)
        THEN "fail"
    ELSE "pass"

\* a filter that returns the passing courses last to first
RECURSIVE SelectPassing_Reversed(_, _)
SelectPassing_Reversed(courses, filters) ==
    IF courses = <<>> THEN <<>>
    ELSE IF CoursePasses(courses[1], filters) = "pass"
         THEN SelectPassing_Reversed(Tail(courses), filters) \o <<courses[1]>>
         ELSE SelectPassing_Reversed(Tail(courses), filters)

\* courses.filter(callback): the passing courses in array order
RECURSIVE SelectPassing(_, _)
SelectPassing(courses, filters) ==
    IF courses = <<>> THEN <<>>
    ELSE IF CoursePasses(courses[1], filters) = "pass"
         THEN <<courses[1]>> \o SelectPassing(Tail(courses), filters)
         ELSE SelectPassing(Tail(courses), filters)

courseWithoutEmbedding(course) ==
    [id |-> course.id, subject |-> course.subject, level |-> course.level,
     credit_min |-> course.credit_min, credit_max |-> course.credit_max,
     last_taught |-> course.last_taught]

\* filterCourses(courses, filters): filters is Undefined when the argument is
\* omitted.  A TypeError is raised when courses is not an array, or when the
\* callback throws on the first course it is applied to.
filterCourses(courses, filters) ==
    IF courses.t # "array"
        THEN [err |-> "TypeError", courses |-> <<>>, embeddings |-> <<>>]
    ELSE IF filters # Undefined
            /\ \E i \in 1..Len(courses.v) : CoursePasses(courses.v[i], filters) = "throw"
        THEN [err |-> "TypeError", courses |-> <<>>, embeddings |-> <<>>]
    ELSE LET filtered == IF filters # Undefined THEN SelectPassing(courses.v, filters)
                         ELSE courses.v
         IN  [err |-> "none",
              courses |-> [i \in 1..Len(filtered) |-> courseWithoutEmbedding(filtered[i])],
              embeddings |-> [i \in 1..Len(filtered) |-> filtered[i].embedding]]

\* delete course.embedding in place of the destructuring
courseAfterMap_Delete(course) == [course EXCEPT !.embedding = <<>>]

\* a course object after the callback of filtered.map (lines 130-134): the
\* rest destructuring copies its fields into a new object and assigns
\* nothing to the course
courseAfterMap(course) == course

\* the array given to filterCourses once the call has returned or thrown:
\* filter and map build new arrays, and the courses that passed have been
\* through the map callbacks
catalogAfterFilter(courses, filters) ==
    IF filterCourses(courses, filters).err # "none" THEN courses
    ELSE Arr([i \in 1..Len(courses.v) |->
                IF filters = Undefined \/ CoursePasses(courses.v[i], filters) = "pass"
                THEN courseAfterMap(courses.v[i])
                ELSE courses.v[i]])

----------------------------------------------------------------------------
(* +server.ts: computeSimilarities and getTopKMatches *)

\* numbers that arithmetic produces: an integer or NaN
Finite(n) == [nan |-> FALSE, n |-> n]
NaN == [nan |-> TRUE, n |-> 0]

Plus(a, b) == IF a.nan \/ b.nan THEN NaN ELSE Finite(a.n + b.n)
Times(a, b) == IF a.nan \/ b.nan THEN NaN ELSE Finite(a.n * b.n)

\* courseEmbedding[i] as an operand of *: undefined past the end, which
\* converts to NaN
Element(e, i) == IF i <= Len(e) THEN Finite(e[i]) ELSE NaN

\* the rest of the reduce from 1-based position i on, sum being the
\* accumulator
RECURSIVE reduceFrom(_, _, _, _)
reduceFrom(sum, q, e, i) ==
    IF i > Len(q) THEN sum
    ELSE reduceFrom(Plus(sum, Times(Finite(q[i]), Element(e, i))), q, e, i + 1)

\* queryEmbedding.reduce((sum, val, i) => sum + val * courseEmbedding[i], 0)
Dot(q, e) == reduceFrom(Finite(0), q, e, 1)

computeSimilarities(queryEmbedding, courseEmbeddings) ==
    [i \in 1..Len(courseEmbeddings) |-> Dot(queryEmbedding, courseEmbeddings[i])]

\* the comparator with its operands exchanged: ascending order
compareFn_Ascending(a, b) == IF a.sim.nan \/ b.sim.nan THEN 0 ELSE a.sim.n - b.sim.n

\* the comparator (a, b) => b.sim - a.sim as sort reads it: a NaN result
\* counts as 0
compareFn(a, b) == IF a.sim.nan \/ b.sim.nan THEN 0 ELSE b.sim.n - a.sim.n

\* an unstable sort: x goes before the elements it ties with
RECURSIVE InsertSorted_Unstable(_, _)
InsertSorted_Unstable(x, sorted) ==
    IF sorted = <<>> THEN <<x>>
    ELSE IF compareFn(sorted[1], x) < 0
         THEN <<sorted[1]>> \o InsertSorted_Unstable(x, Tail(sorted))
    ELSE <<x>> \o sorted

\* Array.prototype.sort is stable (ECMAScript 2019): x goes after every
\* element that the comparator does not order after it
RECURSIVE InsertSorted(_, _)
InsertSorted(x, sorted) ==
    IF sorted = <<>> THEN <<x>>
    ELSE IF compareFn(sorted[1], x) <= 0 THEN <<sorted[1]>> \o InsertSorted(x, Tail(sorted))
    ELSE <<x>> \o sorted

RECURSIVE sort(_)
sort(arr) ==
    IF arr = <<>> THEN <<>>
    ELSE InsertSorted(arr[Len(arr)], sort(SubSeq(arr, 1, Len(arr) - 1)))

\* Array.prototype.slice(0, end): a negative end counts from the back
slice0(arr, end) ==
    LET final == IF end < 0 THEN (IF Len(arr) + end < 0 THEN 0 ELSE Len(arr) + end)
                 ELSE (IF end > Len(arr) THEN Len(arr) ELSE end)
    IN  SubSeq(arr, 1, final)

\* the course taken at the position in the sorted list instead of at idx
getTopKMatches_ByPosition(courses, similarities, k) ==
    LET indexed == [i \in 1..Len(similarities) |-> [idx |-> i, sim |-> similarities[i]]]
        top == slice0(sort(indexed), k)
    IN  [i \in 1..Len(top) |-> [course |-> courses[i], similarity |-> top[i].sim]]

\* a match is { ...courses[idx], similarity: sim }: the fields of the course
\* are kept under course
getTopKMatches(courses, similarities, k) ==
    LET indexed == [i \in 1..Len(similarities) |-> [idx |-> i, sim |-> similarities[i]]]
        top == slice0(sort(indexed), k)
    IN  [i \in 1..Len(top) |-> [course |-> courses[top[i].idx], similarity |-> top[i].sim]]

----------------------------------------------------------------------------
(* Input domains *)

\* "CS", "M", "cs", "cS", "F24", "S24", "x" as code units
SubjCS == <<67, 83>>
SubjM == <<77>>
LowerCs == <<99, 115>>
MixedCs == <<99, 83>>
TermF24 == <<70, 50, 52>>
TermS24 == <<83, 50, 52>>
NonNumeric == <<120>>

Null == [t |-> "null"]

IdleProbe == [kind |-> "none"]

Requests == 1..NumRequests

NoResponse == [status |-> 0, error |-> "none", results |-> <<>>]

NoBody == [skills |-> Undefined, k |-> Undefined, filters |-> NoFilters,
           last_taught_ge |-> Undefined]

\* calls counts the requests this POST has sent to the embedding provider
IdleReq == [pc |-> "idle", body |-> NoBody, i |-> 0, calls |-> 0, embedding |-> <<>>,
            results |-> <<>>, response |-> NoResponse]

\* the store accesses of a loadCourseData call that has not returned data:
\* primary and fallback are "none", "pending", "failed" or "ok" (primary also
\* "badstatus"), result is "unavailable" once the call has thrown
NoLoad == [primary |-> "none", fallback |-> "none", result |-> "none"]

\* the stores of the search page as they are created
InitialPage ==
    [skills |-> <<>>, activeSkill |-> <<>>, filters |-> [lastTaught |-> <<>>],
     results |-> <<>>, isLoading |-> FALSE, isFirstSearch |-> TRUE, searches |-> <<>>]

Embeddings == {<<1, 0>>, <<0, 1>>, <<1, 1>>}

\* every sequence over S of length at most n
SeqsUpTo(S, n) == UNION {[1..m -> S] : m \in 0..n}

\* courses as they are stored: ids are the positions in the file
WithIds(shapes) == [i \in 1..Len(shapes) |-> [shapes[i] EXCEPT !.id = i]]

----------------------------------------------------------------------------
(* Specification SpecFilter: filterCourses applied to bounded inputs *)

FilterShapes ==
    {[id |-> 0, subject |-> s, level |-> l, credit_min |-> c[1], credit_max |-> c[2],
      last_taught |-> t, embedding |-> <<1, 0>>] :
        s \in {SubjCS, SubjM}, l \in 1..MaxLevel,
        c \in {d \in (1..MaxCredit) \X (1..MaxCredit) : d[1] <= d[2]},
        t \in {TermF24, TermS24}}

FilterSet ==
    [subject_contains : {Undefined, Str(<<>>), Str(LowerCs), Str(MixedCs), Num(5)},
     level_min : {Undefined, Str(NonNumeric)} \cup {Num(n) : n \in 0..MaxLevel},
     level_max : {Undefined} \cup {Num(n) : n \in 0..MaxLevel},
     credit_min : {Undefined} \cup {Num(n) : n \in 0..MaxCredit},
     credit_max : {Undefined, Str(NonNumeric)} \cup {Num(n) : n \in 0..MaxCredit},
     last_taught : {Undefined, Str(<<>>), Str(TermS24), Str(TermF24), Num(24)}]

InitFilter ==
    /\ _coursesCache = Null
    /\ req = [r \in Requests |-> IdleReq]
    /\ everLoaded = FALSE
    /\ loadLog = [r \in Requests |-> NoLoad]
    /\ page = InitialPage
    /\ \E shape \in FilterShapes, f \in FilterSet \cup {Undefined} :
          probe = [kind |-> "filter", phase |-> "in", courses |-> Arr(WithIds(<<shape>>)),
                   filters |-> f, out |-> Undefined]

ApplyFilter ==
    /\ probe.kind = "filter" /\ probe.phase = "in"
    /\ probe' = [probe EXCEPT !.phase = "out",
                              !.out = filterCourses(probe.courses, probe.filters)]
    /\ UNCHANGED <<_coursesCache, req, everLoaded, loadLog, page>>

NextFilter == ApplyFilter

SpecFilter == InitFilter /\ [][NextFilter]_vars

----------------------------------------------------------------------------
(* Specification SpecCredit: the credit clauses on a variable-credit course
   and on a course of 3 credits *)

\* the upper end of the course offered for "1-6" credits
WideCredit == 6

CreditShapes ==
    {[id |-> 0, subject |-> SubjCS, level |-> 1, credit_min |-> c[1], credit_max |-> c[2],
      last_taught |-> TermF24, embedding |-> <<1, 0>>] : c \in {<<1, WideCredit>>, <<3, 3>>}}

CreditFilters ==
    {[NoFilters EXCEPT !.credit_min = lo, !.credit_max = hi] :
        lo, hi \in {Undefined} \cup {Num(n) : n \in 0..WideCredit}}

InitCredit ==
    /\ _coursesCache = Null
    /\ req = [r \in Requests |-> IdleReq]
    /\ everLoaded = FALSE
    /\ loadLog = [r \in Requests |-> NoLoad]
    /\ page = InitialPage
    /\ \E shape \in CreditShapes, f \in CreditFilters :
          probe = [kind |-> "filter", phase |-> "in", courses |-> Arr(WithIds(<<shape>>)),
                   filters |-> f, out |-> Undefined]

SpecCredit == InitCredit /\ [][NextFilter]_vars

----------------------------------------------------------------------------
(* Specification SpecRank: filter, score and rank a bounded catalog *)

RankShapes ==
    {[id |-> 0, subject |-> SubjCS, level |-> 1, credit_min |-> c, credit_max |-> c,
      last_taught |-> TermF24, embedding |-> e] :
        c \in {1, MaxCredit}, e \in Embeddings}

RankFilters == {NoFilters, [NoFilters EXCEPT !.credit_min = Num(MaxCredit)]}

RankKs == (0 - 2)..(MaxCourses + 1)

\* query vectors of the catalog's dimension, a shorter one and a longer one
RankQueries == Embeddings \cup {<<1>>, <<1, 0, 1>>}

RankProbe(catalog, f, q, k) ==
    [kind |-> "rank", phase |-> "in", catalog |-> catalog,
     filters |-> f, query |-> q, k |-> k,
     courses |-> <<>>, embeddings |-> <<>>, similarities |-> <<>>,
     matches |-> <<>>]

InitRank ==
    /\ _coursesCache = Null
    /\ req = [r \in Requests |-> IdleReq]
    /\ everLoaded = FALSE
    /\ loadLog = [r \in Requests |-> NoLoad]
    /\ page = InitialPage
    /\ \E shapes \in SeqsUpTo(RankShapes, MaxCourses), f \in RankFilters,
          q \in RankQueries, k \in RankKs :
          probe = RankProbe(Arr(WithIds(shapes)), f, q, k)

RankFilter ==
    /\ probe.kind = "rank" /\ probe.phase = "in"
    /\ LET data == filterCourses(probe.catalog, probe.filters)
       IN  probe' = [probe EXCEPT !.phase = "filtered", !.courses = data.courses,
                                  !.embeddings = data.embeddings,
                                  !.catalog = catalogAfterFilter(probe.catalog, probe.filters)]
    /\ UNCHANGED <<_coursesCache, req, everLoaded, loadLog, page>>

RankSimilarities ==
    /\ probe.kind = "rank" /\ probe.phase = "filtered"
    /\ probe' = [probe EXCEPT !.phase = "scored",
                              !.similarities = computeSimilarities(probe.query, probe.embeddings)]
    /\ UNCHANGED <<_coursesCache, req, everLoaded, loadLog, page>>

RankTopK ==
    /\ probe.kind = "rank" /\ probe.phase = "scored"
    /\ probe' = [probe EXCEPT !.phase = "out",
                              !.matches = getTopKMatches(probe.courses, probe.similarities, probe.k)]
    /\ UNCHANGED <<_coursesCache, req, everLoaded, loadLog, page>>

\* another skill, with any filters, is ranked over the same cached
\* collection
RankAgain ==
    /\ probe.kind = "rank" /\ probe.phase = "out"
    /\ \E f \in RankFilters, q \in RankQueries :
          probe' = RankProbe(probe.catalog, f, q, probe.k)
    /\ UNCHANGED <<_coursesCache, req, everLoaded, loadLog, page>>

NextRank == RankFilter \/ RankSimilarities \/ RankTopK \/ RankAgain

SpecRank == InitRank /\ [][NextRank]_vars

----------------------------------------------------------------------------
(* Specification Spec: concurrent POST /api/match handlers *)

SkillNames == {"a", "b"}

\* the embedding model is a function of the text; the vector is the
\* provider's answer after the normalisation of +server.ts:76-77
EmbeddingOf(skill) == IF skill = "a" THEN <<1, 0>> ELSE <<0, 1>>

Shape(s, l, c1, c2, t, e) ==
    [id |-> 0, subject |-> s, level |-> l, credit_min |-> c1, credit_max |-> c2,
     last_taught |-> t, embedding |-> e]

\* courses.json in blob storage, and the local copy used as fallback
PrimaryCatalog ==
    Arr(WithIds(<<Shape(SubjCS, 1, 1, 1, TermF24, <<1, 0>>),
                  Shape(SubjM, 2, 1, 2, TermS24, <<1, 1>>),
                  Shape(SubjCS, 2, 2, 2, TermF24, <<0, 1>>)>>))

FallbackCatalog ==
    Arr(WithIds(<<Shape(SubjM, 1, 1, 1, TermS24, <<0, 1>>),
                  Shape(SubjCS, 1, 1, 2, TermF24, <<1, 0>>)>>))

\* request bodies: skills missing, not an array, empty, or a non-empty array
InvalidSkills == {Undefined, Str(<<97>>), Arr(<<>>)}

\* one skill, and two distinct skills
ValidSkills == {Arr(<<"a">>), Arr(<<"b", "a">>)}

SpecFilters ==
    {NoFilters,
     [NoFilters EXCEPT !.subject_contains = Num(5)],
     [NoFilters EXCEPT !.level_min = Str(NonNumeric)]}

BaseBody == [skills |-> Arr(<<"a">>), k |-> Undefined, filters |-> NoFilters,
             last_taught_ge |-> Undefined]

\* the base request with its skills, its k or its filters replaced
Bodies ==
    {[BaseBody EXCEPT !.skills = sk] : sk \in InvalidSkills \cup ValidSkills}
    \cup {[BaseBody EXCEPT !.k = k] : k \in {Num(0 - 1)}}
    \cup {[BaseBody EXCEPT !.filters = f] : f \in SpecFilters}

Init ==
    /\ _coursesCache = Null
    /\ req = [r \in Requests |-> IdleReq]
    /\ everLoaded = FALSE
    /\ loadLog = [r \in Requests |-> NoLoad]
    /\ page = InitialPage
    /\ probe = IdleProbe

\* const { skills, k = 5, ...filters } = body
kOf(body) == IF body.k = Undefined THEN 5 ELSE body.k.v

\* a conversion that lets last_taught win over last_taught_ge
dbFilters_PreferLastTaught(body) ==
    [body.filters EXCEPT !.last_taught =
        IF Truthy(body.filters.last_taught) THEN body.filters.last_taught
                                            ELSE body.last_taught_ge]

\* +server.ts loadCourseData: the conversion to the database filter format
dbFilters(body) ==
    [body.filters EXCEPT !.last_taught =
        IF Truthy(body.last_taught_ge) THEN body.last_taught_ge ELSE body.filters.last_taught]

----------------------------------------------------------------------------
(* Specification SpecConvert: the wrapper loadCourseData of +server.ts on a
   request that carries last_taught_ge, last_taught, both or neither, with
   the catalog already in the cache *)

\* a term selector value as the request carries it: absent, empty, or a term
TermValues == {Undefined, Str(<<>>), Str(TermS24), Str(TermF24)}

ConvertBodies ==
    {[BaseBody EXCEPT !.last_taught_ge = ge, !.filters = [NoFilters EXCEPT !.last_taught = lt]] :
        ge \in TermValues, lt \in TermValues}

InitConvert ==
    /\ _coursesCache = Null
    /\ req = [r \in Requests |-> IdleReq]
    /\ everLoaded = FALSE
    /\ loadLog = [r \in Requests |-> NoLoad]
    /\ page = InitialPage
    /\ \E shape \in FilterShapes, body \in ConvertBodies :
          probe = [kind |-> "convert", phase |-> "in", courses |-> Arr(WithIds(<<shape>>)),
                   body |-> body, db |-> Undefined, out |-> Undefined]

\* const dbFilters = { ..., last_taught: filters.last_taught_ge || filters.last_taught }
ConvertFilters ==
    /\ probe.kind = "convert" /\ probe.phase = "in"
    /\ probe' = [probe EXCEPT !.phase = "db", !.db = dbFilters(probe.body)]
    /\ UNCHANGED <<_coursesCache, req, everLoaded, loadLog, page>>

\* return await loadData(dbFilters), served from the cached catalog
ConvertLoad ==
    /\ probe.kind = "convert" /\ probe.phase = "db"
    /\ probe' = [probe EXCEPT !.phase = "out",
                              !.out = filterCourses(probe.courses, probe.db)]
    /\ UNCHANGED <<_coursesCache, req, everLoaded, loadLog, page>>

NextConvert == ConvertFilters \/ ConvertLoad

SpecConvert == InitConvert /\ [][NextConvert]_vars

----------------------------------------------------------------------------

\* POST returns a response: its locals are gone
Respond(rec, response) ==
    [IdleReq EXCEPT !.pc = "done", !.body = rec.body, !.response = response]

\* a catch block that answers with a client-error status
ErrorResponse_ClientStatus(rec, message) ==
    Respond(rec, [status |-> 400, error |-> message, results |-> <<>>])

\* a catch block that answers with the entries gathered before the failure
ErrorResponse_Partial(rec, message) ==
    Respond(rec, [status |-> 500, error |-> message, results |-> rec.results])

\* the catch block of POST
ErrorResponse(rec, message) ==
    Respond(rec, [status |-> 500, error |-> message, results |-> <<>>])

\* createSkillEmbedding up to its first await: throws when the key is not
\* set, otherwise the request to the provider is in flight
BeginEmbedding(rec) ==
    {[rec EXCEPT !.pc = "embed", !.calls = @ + 1],
     ErrorResponse(rec, "HUGGINGFACE_API_KEY environment variable is not set")}

\* for (const skill of skills): the next iteration up to its first await,
\* or the 200 response after the last one
NextIteration(rec) ==
    IF rec.i <= Len(rec.body.skills.v)
    THEN BeginEmbedding(rec)
    ELSE {Respond(rec, [status |-> 200, error |-> "none", results |-> rec.results])}

\* results.push({ skill, matches }) put first instead of last
CompleteSkill_Unshift(rec, data) ==
    LET skills == rec.body.skills.v
        similarities == computeSimilarities(rec.embedding, data.embeddings)
        matches == getTopKMatches(data.courses, similarities, kOf(rec.body))
        results == <<[skill |-> skills[rec.i], matches |-> matches]>> \o rec.results
    IN  NextIteration([rec EXCEPT !.results = results, !.i = rec.i + 1])

\* the rest of the loop body once loadCourseData has returned data
CompleteSkill(rec, data) ==
    LET skills == rec.body.skills.v
        similarities == computeSimilarities(rec.embedding, data.embeddings)
        matches == getTopKMatches(data.courses, similarities, kOf(rec.body))
        results == Append(rec.results, [skill |-> skills[rec.i], matches |-> matches])
    IN  NextIteration([rec EXCEPT !.results = results, !.i = rec.i + 1])

\* the Array.isArray test of the skills check left out
skillsRejected_NoArrayTest(skills) == ~Truthy(skills) \/ Len(skills.v) = 0

\* the length test of the skills check left out
skillsRejected_NoLength(skills) == ~Truthy(skills) \/ skills.t # "array"

\* !skills || !Array.isArray(skills) || skills.length === 0
skillsRejected(skills) ==
    ~Truthy(skills) \/ skills.t # "array" \/ Len(skills.v) = 0

\* request r arrives with its body and POST runs: the skills check, then
\* the first iteration up to its first await.  (await request.json() touches
\* nothing the requests share, so it is not a step of its own.)
Post(r) ==
    /\ req[r].pc = "idle"
    /\ \E body \in Bodies :
          LET rec == [IdleReq EXCEPT !.body = body, !.i = 1]
          IN  IF skillsRejected(body.skills)
              THEN req' = [req EXCEPT ![r] =
                             Respond(rec, [status |-> 400,
                                           error |-> "Skills array is required",
                                           results |-> <<>>])]
              ELSE \E next \in NextIteration(rec) : req' = [req EXCEPT ![r] = next]
    /\ UNCHANGED <<_coursesCache, everLoaded, loadLog, probe, page>>

\* a failed provider request sent again instead of thrown
EmbedReturns_Retry(r) ==
    /\ req[r].pc = "embed"
    /\ \/ req' = [req EXCEPT ![r] = [@ EXCEPT !.calls = @ + 1]]
       \/ req' = [req EXCEPT ![r] =
                    [req[r] EXCEPT !.pc = "import",
                                   !.embedding = EmbeddingOf(req[r].body.skills.v[req[r].i])]]
    /\ UNCHANGED <<_coursesCache, everLoaded, loadLog, probe, page>>

\* the provider answers: a rejected fetch or a non-success status throws,
\* otherwise the normalised vector is returned and the match route's
\* loadCourseData awaits import('$lib/database')
EmbedReturns(r) ==
    /\ req[r].pc = "embed"
    /\ \/ req' = [req EXCEPT ![r] = ErrorResponse(@, "fetch failed")]
       \/ req' = [req EXCEPT ![r] = ErrorResponse(@, "Hugging Face API error")]
       \/ req' = [req EXCEPT ![r] =
                    [req[r] EXCEPT !.pc = "import",
                                   !.embedding = EmbeddingOf(req[r].body.skills.v[req[r].i])]]
    /\ UNCHANGED <<_coursesCache, everLoaded, loadLog, probe, page>>

\* database.ts loadCourseData up to its first await: a cache hit returns
\* filterCourses(_coursesCache, filters), otherwise head('courses.json') is
\* called
LoadStart(r) ==
    /\ req[r].pc = "import"
    /\ IF Truthy(_coursesCache)
       THEN LET data == filterCourses(_coursesCache, dbFilters(req[r].body))
            IN  /\ IF data.err # "none"
                   THEN req' = [req EXCEPT ![r] = ErrorResponse(@, data.err)]
                   ELSE \E next \in CompleteSkill(req[r], data) :
                           req' = [req EXCEPT ![r] = next]
                /\ loadLog' = [loadLog EXCEPT ![r] = NoLoad]
       ELSE /\ req' = [req EXCEPT ![r] = [@ EXCEPT !.pc = "head"]]
            /\ loadLog' = [loadLog EXCEPT ![r] = [NoLoad EXCEPT !.primary = "pending"]]
    /\ UNCHANGED <<_coursesCache, everLoaded, probe, page>>

\* head() resolves with the blob's metadata and the download is started, or
\* it throws (blob not found, bad token, network) and the catch block starts
\* the fallback
HeadReturns(r) ==
    /\ req[r].pc = "head"
    /\ \/ /\ req' = [req EXCEPT ![r] = [@ EXCEPT !.pc = "fetch"]]
          /\ UNCHANGED loadLog
       \/ /\ req' = [req EXCEPT ![r] = [@ EXCEPT !.pc = "fallback"]]
          /\ loadLog' = [loadLog EXCEPT ![r] =
                           [@ EXCEPT !.primary = "failed", !.fallback = "pending"]]
    /\ UNCHANGED <<_coursesCache, everLoaded, probe, page>>

\* fetch(blobInfo.downloadUrl) resolves with a response of any status, or
\* rejects
FetchReturns(r) ==
    /\ req[r].pc = "fetch"
    /\ \/ /\ req' = [req EXCEPT ![r] = [@ EXCEPT !.pc = "body"]]
          /\ UNCHANGED loadLog
       \/ /\ req' = [req EXCEPT ![r] = [@ EXCEPT !.pc = "fallback"]]
          /\ loadLog' = [loadLog EXCEPT ![r] =
                           [@ EXCEPT !.primary = "failed", !.fallback = "pending"]]
    /\ UNCHANGED <<_coursesCache, everLoaded, probe, page>>

\* lines 44-45 once response.json() has resolved with coursesData: the cache
\* is assigned, then filterCourses runs inside the try block
StoreAndFilter(r, coursesData, outcome) ==
    LET data == filterCourses(coursesData, dbFilters(req[r].body))
    IN  /\ _coursesCache' = coursesData
        /\ everLoaded' = (everLoaded \/ outcome = "ok")
        /\ IF data.err # "none"
           THEN /\ req' = [req EXCEPT ![r] = [@ EXCEPT !.pc = "fallback"]]
                /\ loadLog' = [loadLog EXCEPT ![r] =
                                 [@ EXCEPT !.primary = outcome, !.fallback = "pending"]]
           ELSE /\ \E next \in CompleteSkill(req[r], data) :
                      req' = [req EXCEPT ![r] = next]
                /\ loadLog' = [loadLog EXCEPT ![r] = NoLoad]

\* response.json() resolves with the catalog (status 200), resolves with the
\* JSON body of a non-success answer (an object, or null), or throws on a
\* body that is not JSON
BodyParsed(r) ==
    /\ req[r].pc = "body"
    /\ \/ StoreAndFilter(r, PrimaryCatalog, "ok")
       \/ StoreAndFilter(r, JunkBody, "badstatus")
       \/ StoreAndFilter(r, Null, "badstatus")
       \/ /\ req' = [req EXCEPT ![r] = [@ EXCEPT !.pc = "fallback"]]
          /\ loadLog' = [loadLog EXCEPT ![r] =
                           [@ EXCEPT !.primary = "failed", !.fallback = "pending"]]
          /\ UNCHANGED <<_coursesCache, everLoaded>>
    /\ UNCHANGED <<probe, page>>

CatalogUnavailable == "Course data not available - please upload to blob storage"

\* the fallback (lines 53-85) once the local file has been read or found
\* missing: any exception, that of filterCourses included, is rethrown as
\* the catalog-unavailable error
FallbackReturns(r) ==
    /\ req[r].pc = "fallback"
    /\ \/ LET data == filterCourses(FallbackCatalog, dbFilters(req[r].body))
          IN  /\ _coursesCache' = FallbackCatalog
              /\ everLoaded' = TRUE
              /\ IF data.err # "none"
                 THEN /\ req' = [req EXCEPT ![r] = ErrorResponse(@, CatalogUnavailable)]
                      /\ loadLog' = [loadLog EXCEPT ![r] =
                                       [@ EXCEPT !.fallback = "ok", !.result = "unavailable"]]
                 ELSE /\ \E next \in CompleteSkill(req[r], data) :
                            req' = [req EXCEPT ![r] = next]
                      /\ loadLog' = [loadLog EXCEPT ![r] = NoLoad]
       \/ /\ req' = [req EXCEPT ![r] = ErrorResponse(@, CatalogUnavailable)]
          /\ loadLog' = [loadLog EXCEPT ![r] =
                           [@ EXCEPT !.fallback = "failed", !.result = "unavailable"]]
          /\ UNCHANGED <<_coursesCache, everLoaded>>
    /\ UNCHANGED <<probe, page>>

Next ==
    \/ \E r \in Requests : Post(r)
    \/ \E r \in Requests : EmbedReturns(r)
    \/ \E r \in Requests : LoadStart(r)
    \/ \E r \in Requests : HeadReturns(r)
    \/ \E r \in Requests : FetchReturns(r)
    \/ \E r \in Requests : BodyParsed(r)
    \/ \E r \in Requests : FallbackReturns(r)

Spec == Init /\ [][Next]_vars

----------------------------------------------------------------------------
(* Specification SpecPage: the search page, its event handlers and the
   search() calls it has in flight.  Skills are strings (sequences of code
   units).  Of the seven filter fields only lastTaught is kept: the others
   are copied into the payload the same way. *)

Space == 32

\* String.prototype.trim
RECURSIVE trimStart(_)
trimStart(s) == IF s # <<>> /\ Head(s) = Space THEN trimStart(Tail(s)) ELSE s

RECURSIVE trimEnd(_)
trimEnd(s) ==
    IF s # <<>> /\ s[Len(s)] = Space THEN trimEnd(SubSeq(s, 1, Len(s) - 1)) ELSE s

trim(s) == trimEnd(trimStart(s))

\* what the user may have typed into the skill input: nothing, a blank,
\* "a", " a" and "b"
TypedSkills == {<<>>, <<Space>>, <<97>>, <<Space, 97>>, <<98>>}

\* the options of the "Last taught" select: Any and F24
LastTaughtOptions == {<<>>, TermF24}

\* Array.prototype.includes on an array of strings
arrayIncludes(arr, value) == \E i \in 1..Len(arr) : arr[i] = value

\* get(skills).filter((s) => s.trim())
currentSkillsOf(p) == SelectSeq(p.skills, LAMBDA sk : trim(sk) # <<>>)

\* the body of the request search() sends
payloadOf(p) ==
    [skills |-> currentSkillsOf(p),
     last_taught |-> IF p.filters.lastTaught # <<>> THEN Str(p.filters.lastTaught)
                     ELSE Undefined]

\* json.results of the answer to a payload: one block per skill, in payload
\* order; the matches of a block are fixed by the skill and the filters of
\* the payload, and are represented by them
resultsFor(payload) ==
    [i \in 1..Len(payload.skills) |->
        [skill |-> payload.skills[i], last_taught |-> payload.last_taught]]

\* search() up to its await: nothing without skills, else isLoading is set
\* and the request is sent
search(p) ==
    IF currentSkillsOf(p) = <<>> THEN p
    ELSE [p EXCEPT !.isLoading = TRUE,
                   !.searches = Append(@, [payload |-> payloadOf(p), pc |-> "fetch"])]

\* the bound on search() calls lets this call start
MaySearch(p) == currentSkillsOf(p) = <<>> \/ Len(p.searches) < MaxSearches

InitPage ==
    /\ _coursesCache = Null
    /\ req = [r \in Requests |-> IdleReq]
    /\ everLoaded = FALSE
    /\ loadLog = [r \in Requests |-> NoLoad]
    /\ probe = IdleProbe
    /\ page = InitialPage

\* Add button or Enter key with value typed into the input
addSkill(typed) ==
    /\ LET value == trim(typed)
       IN  page' = IF value # <<>> /\ ~arrayIncludes(page.skills, value)
                   THEN [page EXCEPT !.skills = Append(@, value), !.activeSkill = value]
                   ELSE page
    /\ UNCHANGED <<_coursesCache, req, everLoaded, loadLog, probe>>

\* the remove button of a listed skill
removeSkill(skill) ==
    /\ arrayIncludes(page.skills, skill)
    /\ LET remaining == SelectSeq(page.skills, LAMBDA sk : sk # skill)
       IN  page' = [page EXCEPT
                      !.skills = remaining,
                      !.activeSkill = IF @ = skill /\ Len(remaining) # 0
                                      THEN remaining[1] ELSE @]
    /\ UNCHANGED <<_coursesCache, req, everLoaded, loadLog, probe>>

\* a click on the list entry or on the tab of a listed skill
selectTab(skill) ==
    /\ arrayIncludes(page.skills, skill)
    /\ page' = [page EXCEPT !.activeSkill = skill]
    /\ UNCHANGED <<_coursesCache, req, everLoaded, loadLog, probe>>

\* bind:value of the "Last taught" select
selectLastTaught(option) ==
    /\ page' = [page EXCEPT !.filters.lastTaught = option]
    /\ UNCHANGED <<_coursesCache, req, everLoaded, loadLog, probe>>

\* the Search button, disabled while isLoading
clickSearch ==
    /\ ~page.isLoading
    /\ MaySearch(page)
    /\ page' = search(page)
    /\ UNCHANGED <<_coursesCache, req, everLoaded, loadLog, probe>>

\* the Reset button: default filters, then search() when there are skills
resetFilters ==
    /\ MaySearch(page)
    /\ page' = search([page EXCEPT !.filters = [lastTaught |-> <<>>]])
    /\ UNCHANGED <<_coursesCache, req, everLoaded, loadLog, probe>>

\* search() number n resumes with a successful answer
searchAnswered(n) ==
    /\ n \in 1..Len(page.searches)
    /\ page.searches[n].pc = "fetch"
    /\ LET currentSkills == page.searches[n].payload.skills
       IN  page' = [page EXCEPT
                      !.results = resultsFor(page.searches[n].payload),
                      !.activeSkill = IF @ = <<>> /\ Len(currentSkills) # 0
                                      THEN currentSkills[1] ELSE @,
                      !.isFirstSearch = FALSE,
                      !.isLoading = FALSE,
                      !.searches[n].pc = "ok"]
    /\ UNCHANGED <<_coursesCache, req, everLoaded, loadLog, probe>>

\* search() number n resumes with a non-success status, or fetch or
\* res.json() throws: the finally block still runs
searchFailed(n) ==
    /\ n \in 1..Len(page.searches)
    /\ page.searches[n].pc = "fetch"
    /\ \E outcome \in {"notok", "threw"} :
          page' = [page EXCEPT !.isLoading = FALSE, !.searches[n].pc = outcome]
    /\ UNCHANGED <<_coursesCache, req, everLoaded, loadLog, probe>>

NextPage ==
    \/ \E typed \in TypedSkills : addSkill(typed)
    \/ \E skill \in {trim(t) : t \in TypedSkills} : removeSkill(skill)
    \/ \E skill \in {trim(t) : t \in TypedSkills} : selectTab(skill)
    \/ \E option \in LastTaughtOptions : selectLastTaught(option)
    \/ clickSearch
    \/ resetFilters
    \/ \E n \in 1..MaxSearches : searchAnswered(n)
    \/ \E n \in 1..MaxSearches : searchFailed(n)

SpecPage == InitPage /\ [][NextPage]_vars

----------------------------------------------------------------------------
(* Claims *)

FilterDone == probe.kind = "filter" /\ probe.phase = "out"
RankDone == probe.kind = "rank" /\ probe.phase = "out"

Min(a, b) == IF a < b THEN a ELSE b

NumericOrAbsent(x) == x.t \in {"undefined", "number"}

\* the closed intervals overlap, an absent bound leaving its side open
CreditOverlap(course, filters) ==
    /\ filters.credit_min.t = "number" => course.credit_max >= filters.credit_min.v
    /\ filters.credit_max.t = "number" => course.credit_min <= filters.credit_max.v

WithoutCredit(filters) ==
    [filters EXCEPT !.credit_min = Undefined, !.credit_max = Undefined]

\* C1: a course that passes the other clauses is kept by filterCourses if and
\* only if its credit interval overlaps the filter's, every supplied numeric
\* bound (0 included) being applied and an absent bound leaving its side open.
C1_CreditOverlapIff ==
    (/\ FilterDone
     /\ probe.filters # Undefined
     /\ NumericOrAbsent(probe.filters.credit_min)
     /\ NumericOrAbsent(probe.filters.credit_max)
     /\ CoursePasses(probe.courses.v[1], WithoutCredit(probe.filters)) = "pass")
    => (Len(probe.out.courses) = 1 <=> CreditOverlap(probe.courses.v[1], probe.filters))

PrimaryInFlight(r) == req[r].pc \in {"head", "fetch", "body"}

\* C2: at most one load of the primary store (head + download of
\* courses.json) is in flight at any time.
C2_SingleFlight == Cardinality({r \in Requests : PrimaryInFlight(r)}) <= 1

\* C3: a successful response has one results entry per skill, entry i
\* carrying skill i of the request; the entries gathered so far are always
\* the request's first skills in order.
C3_SkillOrderPreserved ==
    \A r \in Requests :
        req[r].pc # "idle" /\ req[r].body.skills.t = "array" =>
            /\ \A i \in 1..Len(req[r].results) :
                  /\ i <= Len(req[r].body.skills.v)
                  /\ req[r].results[i].skill = req[r].body.skills.v[i]
            /\ req[r].response.status = 200 =>
                  /\ Len(req[r].response.results) = Len(req[r].body.skills.v)
                  /\ \A i \in 1..Len(req[r].response.results) :
                        req[r].response.results[i].skill = req[r].body.skills.v[i]

C3_Witness ==
    \E r \in Requests :
        /\ req[r].pc = "done" /\ req[r].response.status = 200
        /\ req[r].body.skills = Arr(<<"b", "a">>)
        /\ Len(req[r].response.results) = 2

ReturnedIds == {probe.matches[i].course.id : i \in 1..Len(probe.matches)}

\* every similarity is a number: the query is not longer than an embedding
NoNaN == \A n \in 1..Len(probe.similarities) : ~probe.similarities[n].nan

\* C4: for k >= 0 and n surviving courses getTopKMatches returns min(k, n)
\* matches in non-increasing similarity, and no survivor left out scores
\* strictly higher than a returned one.
C4_TopK ==
    (RankDone /\ probe.k >= 0 /\ NoNaN) =>
        /\ Len(probe.matches) = Min(probe.k, Len(probe.courses))
        /\ \A i, j \in 1..Len(probe.matches) :
              i < j => probe.matches[i].similarity.n >= probe.matches[j].similarity.n
        /\ \A n \in 1..Len(probe.courses) :
              probe.courses[n].id \notin ReturnedIds =>
                  \A i \in 1..Len(probe.matches) :
                      probe.similarities[n].n <= probe.matches[i].similarity.n

C4_Witness ==
    /\ RankDone
    /\ probe.k = 2 /\ Len(probe.courses) = 3 /\ Len(probe.matches) = 2
    /\ NoNaN
    /\ probe.similarities[1].n < probe.similarities[3].n
    /\ probe.matches[1].similarity.n > probe.matches[2].similarity.n

\* C5: with k zero or negative the matches list is empty, whatever the number
\* of surviving courses.
C5_NonPositiveKEmpty ==
    (RankDone /\ probe.k <= 0) => probe.matches = <<>>

\* C6: of two surviving courses with equal similarity, the course earlier in
\* the catalog comes earlier in the matches: if the later one is returned,
\* so is the earlier one, at an earlier position.
C6_TiesInCatalogOrder ==
    (RankDone /\ NoNaN) =>
        \A a, b \in 1..Len(probe.courses) :
            (a < b /\ probe.similarities[a] = probe.similarities[b]) =>
                \A j \in 1..Len(probe.matches) :
                    probe.matches[j].course.id = probe.courses[b].id =>
                        \E i \in 1..(j - 1) :
                            probe.matches[i].course.id = probe.courses[a].id

C6_Witness ==
    /\ RankDone
    /\ probe.filters # NoFilters
    /\ Len(probe.catalog.v) > Len(probe.courses)
    /\ Len(probe.matches) >= 2
    /\ NoNaN
    /\ probe.matches[1].similarity = probe.matches[2].similarity
    /\ probe.matches[1].similarity.n > 0

\* C7: a request whose skills field is missing, not an array or an empty
\* array is answered with status 400 and an error message, never with
\* results.
C7_InvalidSkillsRejected ==
    \A r \in Requests :
        (/\ req[r].pc = "done"
         /\ \/ req[r].body.skills.t # "array"
            \/ req[r].body.skills.v = <<>>)
        => /\ req[r].response.status = 400
           /\ req[r].response.error # "none"
           /\ req[r].response.results = <<>>

C7_Witness ==
    \E r \in Requests :
        /\ req[r].pc = "done"
        /\ req[r].body.skills = Arr(<<>>)
        /\ req[r].response.status = 400

\* a filter value of the wrong type: a text field that is not a string, a
\* numeric bound that is not a number
Malformed(filters) ==
    \/ filters.subject_contains.t \notin {"undefined", "string"}
    \/ filters.last_taught.t \notin {"undefined", "string"}
    \/ \E x \in {filters.level_min, filters.level_max, filters.credit_min, filters.credit_max} :
          ~NumericOrAbsent(x)

EmbedderErrors ==
    {"fetch failed", "Hugging Face API error",
     "HUGGINGFACE_API_KEY environment variable is not set"}

\* C8: a request with a non-empty skills array and a malformed filter value
\* is answered with a client error (400), not with a server error and not
\* with results.
C8_MalformedFilterRejected ==
    \A r \in Requests :
        (/\ req[r].pc = "done"
         /\ ~skillsRejected(req[r].body.skills)
         /\ Malformed(req[r].body.filters)
         /\ req[r].response.error \notin EmbedderErrors)
        => req[r].response.status = 400

PrimaryFailed(r) == loadLog[r].primary \in {"failed", "badstatus"}

\* C9: the fallback store is tried only after the primary store has failed,
\* the load fails with the catalog-unavailable error only when both stores
\* have failed, and a store's success puts that store's collection in the
\* cache.
C9_PrimaryThenFallback ==
    [][\A r \in Requests :
         /\ loadLog'[r].fallback # "none" => loadLog'[r].primary \in {"failed", "badstatus"}
         /\ loadLog'[r].result = "unavailable" =>
               /\ loadLog'[r].primary \in {"failed", "badstatus"}
               /\ loadLog'[r].fallback = "failed"
         /\ (loadLog[r].primary = "pending" /\ loadLog'[r].primary = "ok") =>
               _coursesCache' = PrimaryCatalog
         /\ (loadLog[r].fallback = "pending" /\ loadLog'[r].fallback = "ok") =>
               _coursesCache' = FallbackCatalog
         /\ (req[r].pc = "body" /\ req'[r].pc \notin {"body", "fallback"}) =>
               _coursesCache' = PrimaryCatalog
         /\ (/\ req[r].pc = "fallback" /\ req'[r].pc # "fallback"
             /\ req'[r].response.error # CatalogUnavailable) =>
               _coursesCache' = FallbackCatalog]_vars

\* C10: when a request has failed because both stores were unavailable and
\* no store has ever delivered the catalog, the cache is still empty, and a
\* request that then reaches loadCourseData starts the load again with the
\* primary store.
C10_FailureLeavesCacheEmpty ==
    /\ [](\A r \in Requests :
            (/\ req[r].pc = "done"
             /\ loadLog[r].result = "unavailable"
             /\ PrimaryFailed(r) /\ loadLog[r].fallback = "failed"
             /\ ~everLoaded)
            => _coursesCache = Null)
    /\ [][\A r \in Requests :
            (req[r].pc = "import" /\ req'[r].pc # "import" /\ ~everLoaded)
            => req'[r].pc = "head"]_vars

\* the courses of one results entry
MatchedCourses(entry) == {entry.matches[i].course : i \in 1..Len(entry.matches)}

\* a successful request without filters and with the default k: each of its
\* entries lists every course of the collection it was ranked over
Unfiltered(r) ==
    /\ req[r].pc = "done" /\ req[r].response.status = 200
    /\ req[r].body.filters = NoFilters /\ req[r].body.k = Undefined

StrippedCatalog(catalog) == {courseWithoutEmbedding(catalog.v[i]) : i \in 1..Len(catalog.v)}

\* C11: all requests rank over the identical catalog collection, the one in
\* the cache: the entries of any two unfiltered successful responses list the
\* same courses, and these are the courses of the cached collection.
C11_IdenticalCatalog ==
    /\ \A r1, r2 \in Requests :
          (Unfiltered(r1) /\ Unfiltered(r2)) =>
              \A i \in 1..Len(req[r1].response.results),
                 j \in 1..Len(req[r2].response.results) :
                  MatchedCourses(req[r1].response.results[i])
                      = MatchedCourses(req[r2].response.results[j])
    /\ \A r \in Requests :
          (Unfiltered(r) /\ _coursesCache.t = "array") =>
              \A i \in 1..Len(req[r].response.results) :
                  MatchedCourses(req[r].response.results[i]) = StrippedCatalog(_coursesCache)

\* the matches of a skill ranked with its own embedding over a collection,
\* for every request body
ExpectedMatches ==
    [body \in Bodies, skill \in SkillNames, catalog \in {PrimaryCatalog, FallbackCatalog} |->
        LET data == filterCourses(catalog, dbFilters(body))
        IN  getTopKMatches(data.courses,
                           computeSimilarities(EmbeddingOf(skill), data.embeddings),
                           kOf(body))]

\* C13: a request in which an embedding call failed is answered with an
\* error and no results entries, and every entry of every response carries
\* the matches computed from the embedding of its own skill.
C13_EmbedderFailureFailsRequest ==
    \A r \in Requests :
        req[r].pc = "done" =>
            /\ req[r].response.error \in EmbedderErrors =>
                  /\ req[r].response.status = 500
                  /\ req[r].response.results = <<>>
            /\ \A i \in 1..Len(req[r].response.results) :
                  \E catalog \in {PrimaryCatalog, FallbackCatalog} :
                      req[r].response.results[i].matches
                          = ExpectedMatches[req[r].body, req[r].body.skills.v[i], catalog]

C13_Witness ==
    \E r \in Requests :
        /\ req[r].pc = "done"
        /\ req[r].body.skills = Arr(<<"b", "a">>)
        /\ req[r].response.error = "Hugging Face API error"
        /\ \E q \in Requests :
              /\ req[q].pc = "done" /\ req[q].response.status = 200
              /\ Len(req[q].response.results) = 2

\* C14: the number of provider requests a POST has sent equals the number
\* of skills entries it has reached, one per entry; a provider request that
\* has returned is followed by the load or by the response, and a request
\* that has been answered does nothing more.
C14_OneCallPerSkill ==
    /\ [](\A r \in Requests :
            req[r].pc \notin {"idle", "done"} =>
                /\ req[r].calls = req[r].i
                /\ req[r].i <= Len(req[r].body.skills.v))
    /\ [][\A r \in Requests :
            /\ (req[r].pc = "embed" /\ req'[r] # req[r]) => req'[r].pc \in {"import", "done"}
            /\ req[r].pc = "done" => req'[r] = req[r]]_vars

C14_Witness ==
    \E r \in Requests :
        /\ req[r].pc = "embed" /\ req[r].calls = 2
        /\ Len(req[r].results) = 1

\* the level lies in the closed interval, an absent bound leaving its side open
LevelInRange(course, filters) ==
    /\ filters.level_min.t = "number" => course.level >= filters.level_min.v
    /\ filters.level_max.t = "number" => course.level <= filters.level_max.v

WithoutLevel(filters) ==
    [filters EXCEPT !.level_min = Undefined, !.level_max = Undefined]

\* C16: a course that passes the other clauses is kept by filterCourses if
\* and only if level_min <= course.level <= level_max, every supplied
\* integer bound (0 included) being applied, both bounds inclusive.
C16_LevelBoundsIff ==
    (/\ FilterDone
     /\ probe.filters # Undefined
     /\ NumericOrAbsent(probe.filters.level_min)
     /\ NumericOrAbsent(probe.filters.level_max)
     /\ CoursePasses(probe.courses.v[1], WithoutLevel(probe.filters)) = "pass")
    => (Len(probe.out.courses) = 1 <=> LevelInRange(probe.courses.v[1], probe.filters))

\* a is lexically less than b: a proper prefix of b, or smaller at the
\* first position where they differ
LexLess(a, b) ==
    \E n \in 0..Min(Len(a), Len(b)) :
        /\ \A m \in 1..n : a[m] = b[m]
        /\ \/ n = Len(a) /\ n < Len(b)
           \/ n < Len(a) /\ n < Len(b) /\ a[n + 1] < b[n + 1]

WithoutLastTaught(filters) == [filters EXCEPT !.last_taught = Undefined]

\* C17: with a last_taught filter string, a course that passes the other
\* clauses is kept if and only if its last_taught is not lexically less than
\* the filter value; an equal value passes.
C17_LastTaughtLowerBound ==
    (/\ FilterDone
     /\ probe.filters # Undefined
     /\ probe.filters.last_taught.t = "string"
     /\ CoursePasses(probe.courses.v[1], WithoutLastTaught(probe.filters)) = "pass")
    => (Len(probe.out.courses) = 1
            <=> ~LexLess(probe.courses.v[1].last_taught, probe.filters.last_taught.v))

C17_Witness ==
    /\ FilterDone
    /\ probe.filters # Undefined
    /\ probe.filters.last_taught = Str(TermS24)
    /\ probe.courses.v[1].last_taught = TermS24
    /\ Len(probe.out.courses) = 1

\* C18: a course last taught in F24 passes the filter last_taught = "S24".
C18_F24PassesS24 ==
    (/\ FilterDone
     /\ probe.filters = [NoFilters EXCEPT !.last_taught = Str(TermS24)]
     /\ probe.courses.v[1].last_taught = TermF24)
    => Len(probe.out.courses) = 1

Fold(c) == IF c >= 65 /\ c <= 90 THEN c + 32 ELSE c

\* some window of the subject equals the filter string, letter case aside
ContainsFolded(subject, sub) ==
    \E i \in 0..(Len(subject) - Len(sub)) :
        \A j \in 1..Len(sub) : Fold(subject[i + j]) = Fold(sub[j])

WithoutSubject(filters) == [filters EXCEPT !.subject_contains = Undefined]

\* C19: with a subject_contains filter string, a course that passes the
\* other clauses is kept if and only if its case-folded subject contains the
\* case-folded filter string.
C19_SubjectContainsFolded ==
    (/\ FilterDone
     /\ probe.filters # Undefined
     /\ probe.filters.subject_contains.t = "string"
     /\ CoursePasses(probe.courses.v[1], WithoutSubject(probe.filters)) = "pass")
    => (Len(probe.out.courses) = 1
            <=> ContainsFolded(probe.courses.v[1].subject, probe.filters.subject_contains.v))

C19_Witness ==
    /\ FilterDone
    /\ probe.filters # Undefined
    /\ probe.filters.subject_contains = Str(MixedCs)
    /\ probe.courses.v[1].subject = SubjCS
    /\ Len(probe.out.courses) = 1

C15_DimensionMismatchSignalled ==
    ~(/\ RankDone
      /\ \E i \in 1..Len(probe.embeddings) :
            Len(probe.embeddings[i]) # Len(probe.query))

\* C20: the courses returned by filterCourses are exactly the catalog
\* courses that pass the filter, in catalog order, and position i of the
\* embeddings list is the embedding of the course at position i.
C20_FilterKeepsOrder ==
    (probe.kind = "rank" /\ probe.phase # "in") =>
        LET catalog == probe.catalog.v
            kept == {n \in 1..Len(catalog) : CreditOverlap(catalog[n], probe.filters)}
        IN  /\ Len(probe.courses) = Cardinality(kept)
            /\ Len(probe.embeddings) = Len(probe.courses)
            /\ \A i \in 1..Len(probe.courses) :
                  /\ probe.courses[i].id \in kept
                  /\ probe.courses[i] = courseWithoutEmbedding(catalog[probe.courses[i].id])
                  /\ probe.embeddings[i] = catalog[probe.courses[i].id].embedding
            /\ \A i, j \in 1..Len(probe.courses) :
                  i < j => probe.courses[i].id < probe.courses[j].id

C20_Witness ==
    /\ probe.kind = "rank" /\ probe.phase = "filtered"
    /\ Len(probe.catalog.v) = 3
    /\ Len(probe.courses) = 2
    /\ probe.courses[1].id = 1 /\ probe.courses[2].id = 3
    /\ probe.embeddings[1] # probe.embeddings[2]

\* the sum of the products of the components of two vectors of one length
RECURSIVE DotProduct(_, _)
DotProduct(q, e) ==
    IF q = <<>> THEN 0 ELSE q[1] * e[1] + DotProduct(Tail(q), Tail(e))

\* C21: a returned match has no embedding field, and its similarity is the
\* dot product of the query with the embedding the catalog holds for that
\* same course (query and embeddings of one length).
C21_MatchCarriesOwnScore ==
    (RankDone /\ Len(probe.query) = 2) =>
        \A i \in 1..Len(probe.matches) :
            LET match == probe.matches[i]
            IN  /\ "embedding" \notin DOMAIN match.course
                /\ match.course.id \in 1..Len(probe.catalog.v)
                /\ ~match.similarity.nan
                /\ match.similarity.n
                      = DotProduct(probe.query, probe.catalog.v[match.course.id].embedding)

C21_Witness ==
    /\ RankDone
    /\ probe.query = <<0, 1>>
    /\ Len(probe.matches) = 3
    /\ probe.matches[1].course.id = 2
    /\ probe.matches[1].similarity.n = 1
    /\ probe.matches[3].similarity.n = 0

\* a search for lo to hi credits
CreditSearch(lo, hi) == [NoFilters EXCEPT !.credit_min = Num(lo), !.credit_max = Num(hi)]

Kept == Len(probe.out.courses) = 1

\* C22: the course of 1 to 6 credits passes a search for exactly 1, exactly
\* 3 and exactly 6 credits; the course of 3 credits does not pass a search
\* for 1 to 2 credits.
C22_CreditExamples ==
    FilterDone =>
        LET course == probe.courses.v[1]
        IN  /\ (/\ course.credit_min = 1 /\ course.credit_max = 6
                 /\ probe.filters \in {CreditSearch(1, 1), CreditSearch(3, 3), CreditSearch(6, 6)})
                => Kept
            /\ (/\ course.credit_min = 3 /\ course.credit_max = 3
                 /\ probe.filters = CreditSearch(1, 2))
                => ~Kept

C22_Witness ==
    /\ FilterDone
    /\ probe.courses.v[1].credit_min = 1 /\ probe.courses.v[1].credit_max = 6
    /\ probe.filters = CreditSearch(6, 6)
    /\ Kept

DependencyErrors == EmbedderErrors \cup {CatalogUnavailable}

\* a skills field that is missing, not an array, or an empty array
SkillsInvalid(skills) == skills.t # "array" \/ skills.v = <<>>

\* C23: a failure of the embedding provider or of the catalog load is
\* answered with status 500 and a body that holds only the error message; a
\* missing or invalid skills field is answered with status 400; status 400
\* and status 200 are never the answer to a dependency failure.
C23_StatusSeparatesErrors ==
    \A r \in Requests :
        req[r].pc = "done" =>
            /\ req[r].response.status \in {200, 400, 500}
            /\ req[r].response.error \in DependencyErrors =>
                  /\ req[r].response.status = 500
                  /\ req[r].response.results = <<>>
            /\ req[r].response.status = 400 <=> SkillsInvalid(req[r].body.skills)
            /\ req[r].response.status = 200 <=> req[r].response.error = "none"

C23_Witness ==
    \E r \in Requests :
        /\ req[r].pc = "done"
        /\ req[r].response.status = 500
        /\ req[r].response.error = CatalogUnavailable
        /\ loadLog[r].primary = "failed" /\ loadLog[r].fallback = "failed"

StorePcs == {"head", "fetch", "body", "fallback"}

\* C24: once a store has delivered the catalog to a loadCourseData call, a
\* call that starts later is answered from the cache: it goes to neither
\* store.
C24_LaterCallsHitCache ==
    [][\A r \in Requests :
         (everLoaded /\ req[r].pc = "import" /\ req'[r] # req[r]) =>
             /\ req'[r].pc \notin StorePcs
             /\ loadLog'[r] = NoLoad
             /\ _coursesCache' = _coursesCache]_vars

\* C25: once the cache holds a catalog it is never assigned another value.
C25_CacheAssignedOnce ==
    [][_coursesCache.t = "array" => _coursesCache' = _coursesCache]_vars

\* C26: the cache only ever holds nothing or a collection read from a store,
\* and a download answered with a non-success status sends the load to the
\* fallback store without touching the cache.
C26_CacheOnlyFromSuccessfulRead ==
    /\ [](_coursesCache \in {Null, PrimaryCatalog, FallbackCatalog})
    /\ [][\A r \in Requests :
            (loadLog[r].primary = "pending" /\ loadLog'[r].primary = "badstatus") =>
                /\ req'[r].pc = "fallback"
                /\ _coursesCache' = _coursesCache]_vars

\* C27: a request with a missing or invalid skills field is answered in the
\* step in which it is read, with no embedding call and no catalog load, and
\* that step leaves the cache as it was.
C27_RejectionHasNoEffect ==
    /\ [](\A r \in Requests :
            req[r].pc \notin {"idle", "done"} => ~SkillsInvalid(req[r].body.skills))
    /\ [][\A r \in Requests :
            (req[r].pc = "idle" /\ req'[r].pc # "idle" /\ SkillsInvalid(req'[r].body.skills)) =>
                /\ req'[r].pc = "done" /\ req'[r].response.status = 400
                /\ _coursesCache' = _coursesCache
                /\ loadLog' = loadLog]_vars

C27_Witness ==
    \E r \in Requests :
        /\ req[r].pc = "done"
        /\ req[r].body.skills = Str(<<97>>)
        /\ req[r].response.status = 400
        /\ _coursesCache = PrimaryCatalog

\* C28: when a request supplies both last_taught_ge and last_taught, the filter
\* applied to the catalog uses the last_taught_ge value; last_taught is used
\* only when last_taught_ge is absent or empty
AbsentOrEmpty(v) == v = Undefined \/ v = Str(<<>>)

ConvertDone == probe.kind = "convert" /\ probe.phase = "out"

TermApplied(body) ==
    IF AbsentOrEmpty(body.last_taught_ge) THEN body.filters.last_taught
                                          ELSE body.last_taught_ge

C28_LastTaughtGeWins ==
    ConvertDone =>
        /\ probe.db.last_taught = TermApplied(probe.body)
        /\ probe.out = filterCourses(probe.courses,
                                     [NoFilters EXCEPT !.last_taught = TermApplied(probe.body)])

\* both supplied and different: a course last taught in F24 is dropped by
\* last_taught_ge = S24 although last_taught = F24 alone would keep it
C28_Witness ==
    /\ ConvertDone
    /\ probe.body.last_taught_ge = Str(TermS24)
    /\ probe.body.filters.last_taught = Str(TermF24)
    /\ probe.courses.v[1].last_taught = TermF24
    /\ probe.out.err = "none"
    /\ probe.out.courses = <<>>

\* C29: in the search page, after any sequence of addSkill, removeSkill and
\* tab-selection events, the active skill is either the empty string or a
\* member of the current skills list (in particular after the last remaining
\* skill is removed)
C29_ActiveSkillListed ==
    page.activeSkill = <<>>
    \/ \E i \in 1..Len(page.skills) : page.skills[i] = page.activeSkill

\* C30: in the search page, when two searches are in flight at once, the
\* results finally displayed are those of the most recently issued search,
\* whatever the order in which the two responses arrive, and isLoading is
\* false only when no search is in flight
InFlight == {n \in 1..Len(page.searches) : page.searches[n].pc = "fetch"}

AllAnswered ==
    /\ page.searches # <<>>
    /\ \A n \in 1..Len(page.searches) : page.searches[n].pc = "ok"

C30_LatestSearchDisplayed ==
    /\ AllAnswered =>
          page.results = resultsFor(page.searches[Len(page.searches)].payload)
    /\ ~page.isLoading => InFlight = {}

=============================================================================
